---- MODULE Spec2Model ----
(***************************************************************************)
(* Model of Models/LLM/LLM.py: the BERT, GPT and Llama wrappers.  Each     *)
(* wrapper owns three dataset splits and offers run_<NAME> (one device)    *)
(* and, for BERT and GPT, run_<NAME>_DDP (one worker process per rank,     *)
(* started by mp.spawn).  The trainer, the config builder and the data     *)
(* loader are imported modules (trainer.py, model.py, data.py); their      *)
(* behaviour is taken from the specification's component contracts.        *)
(* Batch size and learning rate reach only the numerical training and are  *)
(* left out of the state.                                                  *)
(***************************************************************************)
EXTENDS Integers, Sequences, FiniteSets, TLC

\* ---------------------------------------------------------------- bounds
MaxEpochs == 2
MaxSaveEvery == 2
MaxWorld == 2
MaxRuns == 2

\* The epoch index run_LLAMA writes into the test path (Nuclear_epoch4.pt).
LlamaTestEpoch == 4

Ranks == 0..(MaxWorld - 1)
\* The epochs, save_every and world_size arguments the runs are called with.
EpochChoices == 1..MaxEpochs
SaveChoices == 1..MaxSaveEvery
WorldChoices == 1..MaxWorld

SingleEntries == {"run_BERT", "run_GPT", "run_LLAMA"}
DDPEntries == {"run_BERT_DDP", "run_GPT_DDP"}

VARIABLES
    self,      \* the wrapper's fields: train_dataset, test_dataset, val_dataset
    files,     \* the checkpoint files on disk: records [path, by]
    runs,      \* number of run_* calls made so far
    args,      \* arguments of the current run_* call
    pc,        \* position of the caller of run_* (the parent process)
    trainer,   \* the TrainerSingle built by the current single-device run
    epoch,     \* single-device train(): the next epoch of the loop
    writes,    \* checkpoint writes of the current run, in order: [rank, path]
    testArg,   \* final_model_path handed to TrainerSingle.test()
    testMissing, \* whether that path was absent when test() was called
    loaded,    \* the file TrainerSingle.test() loaded
    scored,    \* the split TrainerSingle.test() ran inference over
    printed,   \* whether the current run printed RUNTIME
    workers    \* the worker processes of the current distributed run

vars == <<self, files, runs, args, pc, trainer, epoch, writes, testArg,
          testMissing, loaded, scored, printed, workers>>

\* ----------------------------------------------------------- null values
NoPath == [dir |-> "none", epoch |-> 0]
NoFile == [path |-> NoPath, by |-> "none"]
NoArgs == [entry |-> "none", world_size |-> 0, epochs |-> 0, save_every |-> 0]
NoTrainer == [gpu_id |-> 0, trainset |-> "none", testset |-> "none", valset |-> "none"]
NoWorker == [pc |-> "none", ep |-> 0, setup |-> FALSE, destroyed |-> 0,
             trainer |-> NoTrainer, testArg |-> NoPath, loaded |-> NoFile,
             scored |-> "none"]

\* ------------------------------------------------- imported collaborators
\* data_processor.prepare_dataset*: three ordered sequences train/val/test.
prepare_dataset == <<"train", "val", "test">>

\* trainer.prepare_const: the configuration record of one run.
prepare_const(num_epochs, save_every, model_name) ==
    [total_epochs |-> num_epochs, save_every |-> save_every, model_name |-> model_name]

\* The checkpoint naming convention trained_<model_name>/Nuclear_epoch<epoch>.pt,
\* kept as the pair of its two variable parts.
CheckpointPath(model_name, ep) == [dir |-> model_name, epoch |-> ep]

\* Trainer.train: a checkpoint is due after every save_every epochs (epoch
\* index a multiple of save_every) and after the final epoch, once.
SaveDue(ep, const) ==
    \/ ep % const.save_every = 0
    \/ ep = const.total_epochs - 1

\* TrainerDDP.train: only the trainer on device 0 writes.
DDPWrites(tr) == tr.gpu_id = 0

\* Trainer._save_checkpoint: the file at path is (re)written by entry.
WriteFile(fs, path, entry) ==
    {f \in fs : f.path # path} \cup {[path |-> path, by |-> entry]}

Exists(fs, path) == \E f \in fs : f.path = path
FileAt(fs, path) == CHOOSE f \in fs : f.path = path

\* ------------------------------------------------------------ the wrappers
\* BERT/GPT/Llama.__init__: the loader's triple is unpacked into
\* train_dataset, test_dataset, val_dataset, in that order.
WrapperInit ==
    [train_dataset |-> prepare_dataset[1],
     test_dataset  |-> prepare_dataset[2],
     val_dataset   |-> prepare_dataset[3]]

\* The model_name each entry point passes to prepare_const.
ModelName(entry) ==
    CASE entry = "run_BERT"     -> "BERT"
      [] entry = "run_BERT_DDP" -> "BERT_DDP"
      [] entry = "run_GPT"      -> "GPT2"
      [] entry = "run_GPT_DDP"  -> "GPT2"
      [] entry = "run_LLAMA"    -> "Llama"

RunConstSwapped(entry, epochs, save_every) ==
    prepare_const(save_every, epochs, ModelName(entry))

\* const=prepare_const(num_epochs=epochs,...,save_every=save_every,model_name=...)
RunConst(entry, epochs, save_every) ==
    prepare_const(epochs, save_every, ModelName(entry))

Const == RunConst(args.entry, args.epochs, args.save_every)

\* The final_model_path each entry point hands to test().
TestPath(entry, const) ==
    IF entry = "run_LLAMA"
    THEN CheckpointPath(const.model_name, LlamaTestEpoch)
    ELSE CheckpointPath(const.model_name, const.total_epochs - 1)

\* TrainerSingle(...)/TrainerDDP(...): the keyword arguments of the constructor.
MakeTrainer(gpu_id) ==
    [gpu_id   |-> gpu_id,
     trainset |-> self.train_dataset,
     testset  |-> self.test_dataset,
     valset   |-> self.val_dataset]

DDPGpuIdZero(rank) == 0

\* TrainerDDP(gpu_id=rank, ...)
DDPGpuId(rank) == rank

AfterTestSwallowed(ok) == "report"

\* test() is followed directly by end=time.time() and print: an error raised
\* by test() leaves run_* before the print.
AfterTest(ok) == IF ok THEN "report" ELSE "failed"

\* mp.spawn(..., nprocs=world_size)
Nprocs(world_size) == world_size

Started(ws) == {r \in Ranks : ws[r].pc # "none"}

SpawnOutcomeIgnoreExit(ws) ==
    IF \A r \in Started(ws) : ws[r].pc \in {"exited", "failed"}
    THEN "return" ELSE "wait"

SpawnOutcomeNoJoin(ws) == "return"

\* mp.spawn with its default join=True: it raises as soon as a worker has
\* failed and returns once every worker has exited normally.
SpawnOutcome(ws) ==
    IF \E r \in Started(ws) : ws[r].pc = "failed" THEN "raise"
    ELSE IF \A r \in Started(ws) : ws[r].pc = "exited" THEN "return"
    ELSE "wait"

\* ------------------------------------------------------------------- Init
Init ==
    /\ self = WrapperInit
    /\ files = {}
    /\ runs = 0
    /\ args = NoArgs
    /\ pc = "idle"
    /\ trainer = NoTrainer
    /\ epoch = 0
    /\ writes = <<>>
    /\ testArg = NoPath
    /\ testMissing = FALSE
    /\ loaded = NoFile
    /\ scored = "none"
    /\ printed = FALSE
    /\ workers = [r \in Ranks |-> NoWorker]

\* The caller makes one run_* call at a time.
CanStart == pc = "idle" /\ runs < MaxRuns

\* Entry of a run_* call with its arguments.
Begin(entry, world_size, epochs, save_every) ==
    /\ runs' = runs + 1
    /\ args' = [entry |-> entry, world_size |-> world_size,
                epochs |-> epochs, save_every |-> save_every]
    /\ UNCHANGED <<self, files, epoch, writes, testArg, testMissing, loaded,
                   scored, printed>>

\* The run_* call is over (it returned after the print, or the error left
\* it): its locals and its worker processes are gone, and nothing of it is
\* left but the files on disk.
Return ==
    /\ pc \in {"done", "failed"}
    /\ pc' = "idle"
    /\ args' = NoArgs
    /\ trainer' = NoTrainer
    /\ epoch' = 0
    /\ writes' = <<>>
    /\ testArg' = NoPath
    /\ testMissing' = FALSE
    /\ loaded' = NoFile
    /\ scored' = "none"
    /\ printed' = FALSE
    /\ workers' = [r \in Ranks |-> NoWorker]
    /\ UNCHANGED <<self, files, runs>>

\* ------------------------------------------------------ single-device runs
\* run_BERT / run_GPT / run_LLAMA up to start=time.time(): model, const, trainer.
RunSingle(entry, epochs, save_every, gpu_id) ==
    /\ CanStart
    /\ Begin(entry, 0, epochs, save_every)
    /\ trainer' = MakeTrainer(gpu_id)
    /\ pc' = "train"
    /\ UNCHANGED workers

run_BERT == \E e \in EpochChoices, s \in SaveChoices : RunSingle("run_BERT", e, s, 0)
run_GPT == \E e \in EpochChoices, s \in SaveChoices : RunSingle("run_GPT", e, s, 0)
\* run_LLAMA is also called with the one epoch count, LlamaTestEpoch + 1, for
\* which the path it tests is the final checkpoint.
run_LLAMA ==
    \E e \in EpochChoices \cup {LlamaTestEpoch + 1}, s \in SaveChoices :
        RunSingle("run_LLAMA", e, s, 0)

\* TrainerSingle.train(max_epochs=const['total_epochs']): one pass of the loop.
TrainEpoch ==
    /\ pc = "train"
    /\ epoch < Const.total_epochs
    /\ IF SaveDue(epoch, Const)
       THEN LET path == CheckpointPath(Const.model_name, epoch) IN
            /\ files' = WriteFile(files, path, args.entry)
            /\ writes' = Append(writes, [rank |-> trainer.gpu_id, path |-> path])
       ELSE UNCHANGED <<files, writes>>
    /\ epoch' = epoch + 1
    /\ pc' = IF epoch + 1 = Const.total_epochs THEN "test" ELSE "train"
    /\ UNCHANGED <<self, runs, args, trainer, testArg, testMissing, loaded,
                   scored, printed, workers>>

\* TrainerSingle.test(final_model_path=...): loads the checkpoint and scores
\* the trainer's testset, or raises when the file is not there.
Test ==
    /\ pc = "test"
    /\ LET path == TestPath(args.entry, Const)
           ok == Exists(files, path) IN
       /\ testArg' = path
       /\ testMissing' = ~ok
       /\ loaded' = IF ok THEN FileAt(files, path) ELSE NoFile
       /\ scored' = IF ok THEN trainer.testset ELSE "none"
       /\ pc' = AfterTest(ok)
    /\ UNCHANGED <<self, files, runs, args, trainer, epoch, writes, printed, workers>>

\* print(f'RUNTIME : {end-start}')
Report ==
    /\ pc = "report"
    /\ printed' = TRUE
    /\ pc' = "done"
    /\ UNCHANGED <<self, files, runs, args, trainer, epoch, writes, testArg,
                   testMissing, loaded, scored, workers>>

\* ------------------------------------------------------- distributed runs
\* run_BERT_DDP / run_GPT_DDP: start=time.time(); mp.spawn starts the workers.
RunDDP(entry, world_size, epochs, save_every) ==
    /\ CanStart
    /\ Begin(entry, world_size, epochs, save_every)
    /\ UNCHANGED trainer
    /\ workers' = [r \in Ranks |->
                    IF r < Nprocs(world_size)
                    THEN [NoWorker EXCEPT !.pc = "spawned"]
                    ELSE NoWorker]
    /\ pc' = "spawned"

run_BERT_DDP ==
    \E w \in WorldChoices, e \in EpochChoices, s \in SaveChoices :
        RunDDP("run_BERT_DDP", w, e, s)
run_GPT_DDP ==
    \E w \in WorldChoices, e \in EpochChoices, s \in SaveChoices :
        RunDDP("run_GPT_DDP", w, e, s)

ParentSame == UNCHANGED <<self, runs, args, pc, trainer, epoch, testArg,
                          testMissing, loaded, scored, printed>>

\* The worker's position after the loop body of epoch w.ep is complete.
NextEpoch(w) ==
    [w EXCEPT !.ep = w.ep + 1,
              !.pc = IF w.ep + 1 = Const.total_epochs THEN "test" ELSE "epoch"]

\* BERT_DDP / GPT_DDP up to the trainer: model, const, ddp_setup, TrainerDDP.
\* ddp_setup may fail (rendezvous); the worker then ends with the error.
WorkerSetup(r) ==
    /\ workers[r].pc = "spawned"
    /\ \E ok \in BOOLEAN :
        workers' = [workers EXCEPT ![r] =
            IF ok
            THEN [@ EXCEPT !.pc = "epoch", !.setup = TRUE,
                           !.trainer = MakeTrainer(DDPGpuId(r))]
            ELSE [@ EXCEPT !.pc = "failed"]]
    /\ ParentSame
    /\ UNCHANGED <<files, writes>>

\* pc = "epoch": the worker is in epoch w.ep of the loop, at the last
\* gradient all-reduce of the epoch.  A rank has joined the all-reduce of
\* epoch e once it is there or past it.
Joined(w, e) ==
    \/ w.pc \in {"epoch", "save"} /\ w.ep >= e
    \/ w.pc \in {"test", "teardown", "exited"}

\* TrainerDDP.train: the loop body of one epoch.  The all-reduce ends only
\* when every rank has joined it; then a due checkpoint is started by the
\* trainer that writes, and skipped by the others.
WorkerEpoch(r) ==
    /\ workers[r].pc = "epoch"
    /\ \A q \in Started(workers) : Joined(workers[q], workers[r].ep)
    /\ workers' = [workers EXCEPT ![r] =
            IF SaveDue(@.ep, Const) /\ DDPWrites(@.trainer)
            THEN [@ EXCEPT !.pc = "save"]
            ELSE NextEpoch(@)]
    /\ ParentSame
    /\ UNCHANGED <<files, writes>>

\* TrainerDDP._save_checkpoint: the write of the epoch's checkpoint ends.
WorkerSave(r) ==
    /\ workers[r].pc = "save"
    /\ LET path == CheckpointPath(Const.model_name, workers[r].ep) IN
       /\ files' = WriteFile(files, path, args.entry)
       /\ writes' = Append(writes, [rank |-> r, path |-> path])
    /\ workers' = [workers EXCEPT ![r] = NextEpoch(@)]
    /\ ParentSame

\* train() raises in the worker (an error of the training library).
WorkerTrainRaise(r) ==
    /\ workers[r].pc = "epoch"
    /\ workers' = [workers EXCEPT ![r].pc = "failed"]
    /\ ParentSame
    /\ UNCHANGED <<files, writes>>

\* A write of path is under way: the file is open and not yet complete.
InProgress(ws, path) ==
    \E q \in Started(ws) :
        ws[q].pc = "save" /\ CheckpointPath(Const.model_name, ws[q].ep) = path

\* TrainerDDP.test(final_model_path=...): raises when the file is not there;
\* a file read while it is being written loads or raises; inference may raise.
WorkerTest(r) ==
    /\ workers[r].pc = "test"
    /\ LET path == TestPath(args.entry, Const) IN
       \E ok \in BOOLEAN :
         /\ ok => Exists(files, path) \/ InProgress(workers, path)
         /\ workers' = [workers EXCEPT ![r] =
              [@ EXCEPT !.testArg = path,
                        !.pc = IF ok THEN "teardown" ELSE "failed",
                        !.loaded = IF ok /\ Exists(files, path)
                                   THEN FileAt(files, path) ELSE NoFile,
                        !.scored = IF ok THEN workers[r].trainer.testset
                                   ELSE "none"]]
    /\ ParentSame
    /\ UNCHANGED <<files, writes>>

\* destroy_process_group(): the last statement of the worker; it may raise.
WorkerTeardown(r) ==
    /\ workers[r].pc = "teardown"
    /\ \E ok \in BOOLEAN :
        workers' = [workers EXCEPT ![r] =
            [@ EXCEPT !.destroyed = @ + 1,
                      !.pc = IF ok THEN "exited" ELSE "failed"]]
    /\ ParentSame
    /\ UNCHANGED <<files, writes>>

Ended == {"exited", "failed", "killed"}

\* mp.spawn raises: a worker has failed; the workers still alive are
\* terminated and the error leaves run_*_DDP before the print.
SpawnRaise ==
    /\ pc = "spawned"
    /\ SpawnOutcome(workers) = "raise"
    /\ workers' = [r \in Ranks |->
                    IF workers[r].pc \in Ended \cup {"none"}
                    THEN workers[r]
                    ELSE [workers[r] EXCEPT !.pc = "killed"]]
    /\ pc' = "failed"
    /\ UNCHANGED <<self, files, runs, args, trainer, epoch, writes, testArg,
                   testMissing, loaded, scored, printed>>

\* mp.spawn returns: end=time.time() follows.
SpawnReturn ==
    /\ pc = "spawned"
    /\ SpawnOutcome(workers) = "return"
    /\ pc' = "report"
    /\ UNCHANGED <<self, files, runs, args, trainer, epoch, writes, testArg,
                   testMissing, loaded, scored, printed, workers>>

Worker(r) ==
    \/ WorkerSetup(r)
    \/ WorkerEpoch(r)
    \/ WorkerSave(r)
    \/ WorkerTrainRaise(r)
    \/ WorkerTest(r)
    \/ WorkerTeardown(r)

Next ==
    \/ run_BERT
    \/ run_GPT
    \/ run_LLAMA
    \/ TrainEpoch
    \/ Test
    \/ Report
    \/ run_BERT_DDP
    \/ run_GPT_DDP
    \/ \E r \in Ranks : Worker(r)
    \/ SpawnRaise
    \/ SpawnReturn
    \/ Return

Spec == Init /\ [][Next]_vars

\* ----------------------------------------------------------------- claims
Single == args.entry \in SingleEntries
Distributed == args.entry \in DDPEntries
FinalPath == CheckpointPath(ModelName(args.entry), args.epochs - 1)
WritesOf(path) == {i \in 1..Len(writes) : writes[i].path = path}
TrainDone(w) == w.pc \in {"test", "teardown", "exited"}

\* C1: in every run, the path handed to test() is the checkpoint of epoch
\* epochs-1 in the directory of the run's model name.
C1_TestPathIsFinalCheckpoint ==
    /\ testArg # NoPath => testArg = FinalPath
    /\ \A r \in Ranks : workers[r].testArg # NoPath => workers[r].testArg = FinalPath

\* C2: a worker in which ddp_setup succeeded has called destroy_process_group
\* exactly once when its process has ended, on every exit path.
C2_DestroyExactlyOnce ==
    \A r \in Ranks :
        workers[r].setup /\ workers[r].pc \in Ended => workers[r].destroyed = 1

\* C3: while some worker of a distributed run has failed, the run_*_DDP call
\* has not completed normally and has not printed RUNTIME.
C3_WorkerFailureFailsRun ==
    Distributed /\ (\E r \in Ranks : workers[r].pc = "failed")
        => pc \notin {"report", "done"} /\ ~printed

\* C3 witness: one worker exited normally, another failed, and the call
\* ended with the error.
C3_Witness ==
    /\ Distributed
    /\ pc = "failed"
    /\ \E r \in Ranks : workers[r].pc = "failed"
    /\ \E q \in Ranks : workers[q].pc = "exited"

\* C4: a distributed run has one worker for each rank 0..world_size-1 and no
\* other, and RUNTIME is reported only after each of them has finished
\* setup, train, test and teardown and has terminated.
C4_RuntimeAfterAllWorkersEnd ==
    Distributed =>
        /\ Started(workers) = 0..(args.world_size - 1)
        /\ pc \in {"report", "done"} \/ printed =>
             \A r \in 0..(args.world_size - 1) :
                /\ workers[r].pc = "exited"
                /\ workers[r].setup
                /\ workers[r].ep = args.epochs
                /\ workers[r].testArg # NoPath
                /\ workers[r].destroyed = 1

\* C4 witness: a run with at least two workers has printed RUNTIME.
C4_Witness == Distributed /\ args.world_size >= 2 /\ printed

\* C5: in a distributed run every checkpoint write is made by rank 0, no
\* path is written more than once, the checkpoint of every epoch at which a
\* save is due has been written exactly once when rank 0 is past that epoch,
\* and the ranks go through the epochs together: none is more than one
\* epoch ahead of another, and each has run all of them when it tests.
C5_OnlyRankZeroWrites ==
    Distributed =>
        /\ \A i \in 1..Len(writes) : writes[i].rank = 0
        /\ \A e \in 0..(args.epochs - 1) :
             LET due == e % args.save_every = 0 \/ e = args.epochs - 1
                 n == Cardinality(WritesOf(CheckpointPath(ModelName(args.entry), e)))
             IN /\ n <= 1
                /\ ~due => n = 0
                /\ due /\ workers[0].ep > e => n = 1
        /\ \A r \in Started(workers), q \in Started(workers) :
             /\ workers[q].setup => workers[r].ep <= workers[q].ep + 1
             /\ TrainDone(workers[r]) => workers[r].ep = args.epochs

\* C5 witness: two or more ranks have finished a training of several epochs
\* in which a checkpoint was written.
C5_Witness ==
    /\ Distributed
    /\ args.world_size >= 2
    /\ args.epochs >= 2
    /\ Len(writes) >= 2
    /\ \A r \in Started(workers) : TrainDone(workers[r])

C7_TestAfterFinalWrite ==
    Distributed =>
        \A r \in Ranks :
            workers[r].testArg # NoPath =>
                \E i \in 1..Len(writes) :
                    writes[i] = [rank |-> 0, path |-> FinalPath]

\* C8: in a single-device run whose test() found no file at its path, the
\* run has ended with the error: nothing was loaded or scored and RUNTIME
\* was not printed.
C8_MissingCheckpointFailsRun ==
    Single /\ testMissing =>
        /\ pc = "failed"
        /\ ~printed
        /\ loaded = NoFile
        /\ scored = "none"

\* C8 witness: test() found no file at its path while the run's own earlier
\* checkpoints were on disk.
C8_Witness ==
    /\ Single
    /\ testMissing
    /\ pc = "failed"
    /\ \E f \in files : f.by = args.entry

\* C9: the trainer's testset is the loader's test split (third of the
\* triple) and its valset the validation split (second), and test() scores
\* the test split.
C9_TestsetIsTestSplit ==
    /\ trainer # NoTrainer =>
         trainer.testset = prepare_dataset[3] /\ trainer.valset = prepare_dataset[2]
    /\ scored \in {"none", prepare_dataset[3]}
    /\ \A r \in Ranks :
         /\ workers[r].trainer # NoTrainer =>
              /\ workers[r].trainer.testset = prepare_dataset[3]
              /\ workers[r].trainer.valset = prepare_dataset[2]
         /\ workers[r].scored \in {"none", prepare_dataset[3]}

\* C10: no step of a run overwrites a checkpoint file written by another
\* entry point, and no test phase loads one.
C10_NoSharedCheckpoints ==
    [][ /\ \A f \in files, g \in files' : f.path = g.path => f.by = g.by
        /\ loaded' # NoFile => loaded'.by = args'.entry
        /\ \A r \in Ranks :
             workers'[r].loaded # NoFile => workers'[r].loaded.by = args'.entry
      ]_vars

====
